---- MODULE Spec2Model ----
(***************************************************************************)
(* ReliableUDP: the packet codec (src/src/packet.rs) and the single-shot   *)
(* echo server that drives the handshake (src/examples/echo_server.rs).    *)
(*                                                                         *)
(* SpecCodec applies the codec's pure functions to inputs drawn from       *)
(* bounded sets.  SpecServer runs main() of the echo server against a      *)
(* client that may send any datagram of a bounded set.                     *)
(***************************************************************************)
EXTENDS Integers, Sequences, FiniteSets, TLC

VARIABLES
    overflow_checks,  \* build profile: TRUE = overflow checks on (dev), FALSE = off (release)
    \* ---- codec harness ----
    header,           \* the Header handed to the codec
    data,             \* the Option<&[u8]> payload last handed to the codec
    bytes,            \* the byte sequence last produced by / handed to the codec
    flipped,          \* the bit of `bytes` inverted on the wire, or NoBit
    parsed,           \* the last result of Header::parse
    op,               \* the codec function applied last
    ret,              \* what it returned
    \* ---- echo server: main() ----
    pc,               \* where main() is
    buffer,           \* the receive buffer, [u8; 1024], up to the last byte ever written
    size,             \* the size the third recv_from returned
    connection,       \* manager::Connection, once created
    sent,             \* the datagrams handed to send_to, in order
    trace             \* per completed recv_from: the datagram, the header parsed, the outcome

codec_vars == <<header, data, bytes, flipped, parsed, op, ret>>
server_vars == <<pc, buffer, size, connection, sent, trace>>
vars == <<overflow_checks, codec_vars, server_vars>>

(***************************************************************************)
(* Program constants                                                       *)
(***************************************************************************)
HEADER_SIZE == 14
MAX_PACKET_SIZE == 65507
BUFFER_SIZE == 1024
LAST_RESPONSE == 5

U16_MOD == 65536

(***************************************************************************)
(* Bounds of the model                                                     *)
(***************************************************************************)
MaxPayloadLen == 3
MaxClientPayload == 2

(***************************************************************************)
(* Data                                                                    *)
(***************************************************************************)
\* enum PType, #[repr(u8)]: Syn = 1 and the following variants count up.
PType == {"Syn", "SynAck", "Ack", "Psh", "Fin"}

\* `ptype as u8` / `ptype as u16`: the discriminant.
Discriminant(ptype) ==
    CASE ptype = "Syn"    -> 1
      [] ptype = "SynAck" -> 2
      [] ptype = "Ack"    -> 3
      [] ptype = "Psh"    -> 4
      [] ptype = "Fin"    -> 5

\* A u32 is held as its two 16-bit halves: the value is hi * 2^16 + lo.
U32(hi, lo) == [hi |-> hi, lo |-> lo]

\* struct Header
Header(seq, ack, ptype, header_checksum, checksum) ==
    [seq |-> seq, ack |-> ack, ptype |-> ptype,
     header_checksum |-> header_checksum, checksum |-> checksum]

\* Option<&[u8]>
None == [is_some |-> FALSE, dt |-> <<>>]
Some(dt) == [is_some |-> TRUE, dt |-> dt]

\* The errors parse returns.  An error is held as the constructor call that makes
\* it in Header::parse: the constructor's name and the argument it is handed.
TooSmallPacket == [kind |-> "TooSmallPacket", arg |-> 0]
TooBigPacket_new(len) == [kind |-> "TooBigPacket", arg |-> len]
UknownPType_new(value) == [kind |-> "UknownPType", arg |-> value]
NoError == [kind |-> "none", arg |-> 0]

NoHeader == Header(U32(0, 0), U32(0, 0), "Syn", 0, 0)
Ok(h) == [ok |-> TRUE, header |-> h, err |-> NoError]
Err(e) == [ok |-> FALSE, header |-> NoHeader, err |-> e]

\* The outcome of u16 arithmetic: a value, or the panic "attempt to add with overflow".
Value(v) == [panic |-> FALSE, val |-> v]
Panic == [panic |-> TRUE, val |-> 0]

(***************************************************************************)
(* Byte order                                                              *)
(***************************************************************************)
u32_to_be_bytes(x) ==
    << x.hi \div 256, x.hi % 256, x.lo \div 256, x.lo % 256 >>

u16_to_be_bytes(x) == << x \div 256, x % 256 >>

\* (a reader that takes the bytes in little-endian order)
u32_from_le_bytes(b) == U32(b[4] * 256 + b[3], b[2] * 256 + b[1])
u32_from_be_bytes(b) == U32(b[1] * 256 + b[2], b[3] * 256 + b[4])

\* (a 16-bit reader that takes the bytes in little-endian order)
u16_from_le_bytes(b) == b[2] * 256 + b[1]
u16_from_be_bytes(b) == b[1] * 256 + b[2]

\* data[lo..hi] of the source (0-based, hi exclusive)
Slice(s, lo, hi) == [i \in 1..(hi - lo) |-> s[lo + i]]

(***************************************************************************)
(* Header::parse                                                           *)
(***************************************************************************)
\* The byte handed to UknownPType::new when data[9] names no PType.
UnknownPTypeArg(d) == d[8 + 1]

\* data.len() < HEADER_SIZE
IsTooSmall(d) == Len(d) < HEADER_SIZE

\* data.len() > MAX_PACKET_SIZE
\* (an off-by-one guard that also rejects a packet of exactly MAX_PACKET_SIZE)
IsTooBigInclusive(d) == Len(d) >= MAX_PACKET_SIZE
IsTooBig(d) == Len(d) > MAX_PACKET_SIZE

parse(d) ==
    IF IsTooSmall(d) THEN Err(TooSmallPacket)
    ELSE IF IsTooBig(d) THEN Err(TooBigPacket_new(Len(d)))
    ELSE
      LET seq == u32_from_be_bytes(Slice(d, 0, 4))
          ack == u32_from_be_bytes(Slice(d, 4, 8))
          b9  == d[9 + 1]
          header_checksum == u16_from_be_bytes(Slice(d, 10, 12))
          checksum == u16_from_be_bytes(Slice(d, 12, 14))
      IN  IF b9 \notin 1..5 THEN Err(UknownPType_new(UnknownPTypeArg(d)))
          ELSE Ok(Header(seq, ack,
                         CHOOSE p \in PType : Discriminant(p) = b9,
                         header_checksum, checksum))

(***************************************************************************)
(* Checksums                                                               *)
(***************************************************************************)
\* `checksum += x` on a u16: wraps when overflow checks are off, panics when on.
add_u16(acc, x) ==
    IF acc.panic THEN acc
    ELSE IF acc.val + x >= U16_MOD
         THEN (IF overflow_checks THEN Panic ELSE Value((acc.val + x) % U16_MOD))
         ELSE Value(acc.val + x)

\* `(x >> 16) as u16` and `x as u16` of a u32
high16(x) == x.hi
low16(x) == x.lo

\* (a fold that leaves the low half of ack out)
add_fields_without_ack_low(acc, seq, ack, ptype) ==
    add_u16(add_u16(add_u16(add_u16(acc,
        high16(seq)), low16(seq)), high16(ack)), Discriminant(ptype))

\* the five additions shared by both checksum functions
add_fields(acc, seq, ack, ptype) ==
    add_u16(add_u16(add_u16(add_u16(add_u16(acc,
        high16(seq)), low16(seq)), high16(ack)), low16(ack)), Discriminant(ptype))

calculate_header_checksum(seq, ack, ptype) ==
    add_fields(Value(0), seq, ack, ptype)

\* for index in (index..end).step_by(2) { checksum += dt[index] << 8; checksum += dt[index+1] }
RECURSIVE add_pairs(_, _, _, _)
add_pairs(acc, dt, index, end) ==
    IF index >= end THEN acc
    ELSE add_pairs(add_u16(add_u16(acc, dt[index + 1] * 256), dt[index + 2]),
                   dt, index + 2, end)

calculate_checksum(seq, ack, ptype, header_checksum, d) ==
    LET checksum == add_fields(Value(header_checksum), seq, ack, ptype)
    IN  IF d.is_some
        THEN IF Len(d.dt) % 2 = 0
             THEN add_pairs(checksum, d.dt, 0, Len(d.dt))
             ELSE add_u16(add_pairs(checksum, d.dt, 0, Len(d.dt) - 1),
                          d.dt[Len(d.dt)] * 256)
        ELSE checksum

\* `self.header_checksum == calculated_checksum`: a bool, unless the sum panicked
Compare(field, calculated) ==
    IF calculated.panic THEN [panic |-> TRUE, result |-> FALSE]
    ELSE [panic |-> FALSE, result |-> (field = calculated.val)]

verify_header_checksum(self) ==
    Compare(self.header_checksum,
            calculate_header_checksum(self.seq, self.ack, self.ptype))

verify_checksum(self, d) ==
    Compare(self.checksum,
            calculate_checksum(self.seq, self.ack, self.ptype, self.header_checksum, d))

(***************************************************************************)
(* packet_to_binary                                                        *)
(***************************************************************************)
\* the byte pushed between ack and ptype
\* (a serializer that pushes no padding byte)
NoPaddingByte == <<>>
PaddingByte == <<0>>

packet_to_binary(h, d) ==
    u32_to_be_bytes(h.seq) \o u32_to_be_bytes(h.ack) \o PaddingByte
      \o << Discriminant(h.ptype) >>
      \o u16_to_be_bytes(h.header_checksum) \o u16_to_be_bytes(h.checksum)
      \o (IF d.is_some THEN d.dt ELSE <<>>)

(***************************************************************************)
(* Inputs of the codec harness                                             *)
(***************************************************************************)
SeqVals == {U32(0, 0), U32(0, 100), U32(258, 772), U32(65535, 65535)}
AckVals == {U32(0, 0), U32(0, 65535), U32(43981, 4660)}
HeaderChecksumVals == {4660}
ChecksumVals == {43981}
PayloadBytes == {1, 2, 255}

\* the sums the checksum functions are specified to return: 16-bit, wrapping
WrapHeaderSum(seq, ack, ptype) ==
    (high16(seq) + low16(seq) + high16(ack) + low16(ack) + Discriminant(ptype)) % U16_MOD

RECURSIVE PairSum(_)
PairSum(dt) ==
    IF Len(dt) = 0 THEN 0
    ELSE IF Len(dt) = 1 THEN dt[1] * 256
    ELSE dt[1] * 256 + dt[2] + PairSum(SubSeq(dt, 3, Len(dt)))

WrapSum(seq, ack, ptype, header_checksum, d) ==
    (header_checksum + high16(seq) + low16(seq) + high16(ack) + low16(ack)
       + Discriminant(ptype) + (IF d.is_some THEN PairSum(d.dt) ELSE 0)) % U16_MOD

\* headers: every field combination, with arbitrary and with matching checksums
Headers ==
    UNION { UNION { { Header(seq, ack, ptype, hc, cs) :
                        cs \in ChecksumVals \cup {WrapSum(seq, ack, ptype, hc, None)} } :
                    hc \in HeaderChecksumVals \cup {WrapHeaderSum(seq, ack, ptype)} } :
            <<seq, ack, ptype>> \in SeqVals \X AckVals \X PType }

SeqsUpTo(S, n) == UNION { [1..k -> S] : k \in 0..n }

SmallPayloads == { Some(dt) : dt \in SeqsUpTo(PayloadBytes, MaxPayloadLen) }

\* payloads that bring the packet to MAX_PACKET_SIZE - 1, MAX_PACKET_SIZE, MAX_PACKET_SIZE + 1
BigPayloads ==
    { Some([i \in 1..(MAX_PACKET_SIZE - HEADER_SIZE + k) |-> i % 256]) : k \in {-1, 0, 1} }

\* the headers that are also tried with the payloads and lengths around MAX_PACKET_SIZE
IsBigHeader(h) ==
    /\ h.seq = U32(258, 772)
    /\ h.ack = U32(43981, 4660)
    /\ h.header_checksum \in HeaderChecksumVals
    /\ h.checksum \in ChecksumVals

Payloads(h) ==
    {None} \cup SmallPayloads \cup (IF IsBigHeader(h) THEN BigPayloads ELSE {})

\* `s` cut or extended to n bytes
Resize(s, n) == [i \in 1..n |-> IF i <= Len(s) THEN s[i] ELSE i % 256]

\* `s` with the reserved byte and the ptype byte overwritten
Patch(s, rsv, pt) == [s EXCEPT ![8 + 1] = rsv, ![9 + 1] = pt]

RsvVals == {0, 7, 255}
PtVals == {0, 3, 6, 9, 255}
SmallLens == {0, 13, 14, 15}
BigLens == {MAX_PACKET_SIZE, MAX_PACKET_SIZE + 1}

\* raw inputs of parse derived from header h: any reserved byte, any ptype byte,
\* lengths around both limits
RawInputs(h) ==
    LET hb == packet_to_binary(h, None)
    IN  { Resize(Patch(hb, r, t), n) : <<r, t, n>> \in RsvVals \X PtVals \X SmallLens }
          \cup (IF IsBigHeader(h)
                THEN { Resize(Patch(hb, 7, t), n) : <<t, n>> \in {1, 9} \X BigLens }
                ELSE {})

\* `s` with bit `bit` inverted (bit 0 = most significant bit of byte 0)
FlipBit(s, bit) ==
    LET i == (bit \div 8) + 1
        w == 2 ^ (7 - (bit % 8))
    IN  [s EXCEPT ![i] = IF (s[i] \div w) % 2 = 1 THEN s[i] - w ELSE s[i] + w]

\* bits of bytes 0..9: seq, ack, the reserved byte, the ptype byte
HeaderBits == 0 .. (8 * 10 - 1)

NotParsed == Err(NoError)

(***************************************************************************)
(* The echo server's state                                                 *)
(***************************************************************************)
\* manager::Connection as main() builds it; `created` tells whether the binding exists yet
Connection(seq, ack, previous_seq, is_open, last_response) ==
    [created |-> TRUE, seq |-> seq, ack |-> ack, previous_seq |-> previous_seq,
     is_open |-> is_open, last_response |-> last_response]

NoConnection ==
    [created |-> FALSE, seq |-> U32(0, 0), ack |-> U32(0, 0), previous_seq |-> U32(0, 0),
     is_open |-> FALSE, last_response |-> 0]

\* let mut buffer: [u8; 1024] = [0; 1024];  The variable holds the array up to the
\* last byte a receive has written; every byte after that, up to BUFFER_SIZE, is
\* still the 0 it was initialised to.
ZeroBuffer == <<>>

\* buffer[i] (0-based)
BufferByte(buf, i) == IF i + 1 <= Len(buf) THEN buf[i + 1] ELSE 0

\* &buffer[lo..hi], for lo <= hi <= BUFFER_SIZE
BufferSlice(buf, lo, hi) == [i \in 1..(hi - lo) |-> BufferByte(buf, lo + i - 1)]

ServerInit ==
    /\ pc = "recv_syn"
    /\ buffer = ZeroBuffer
    /\ size = 0
    /\ connection = NoConnection
    /\ sent = <<>>
    /\ trace = <<>>

\* the server's variables while only the codec is exercised
ServerIdle == ServerInit

\* the codec harness's variables while only the server runs
CodecIdle ==
    /\ header = NoHeader
    /\ data = None
    /\ bytes = <<>>
    /\ flipped = {}
    /\ parsed = NotParsed
    /\ op = "idle"
    /\ ret = Value(0)

(***************************************************************************)
(* The codec harness                                                       *)
(***************************************************************************)
CodecInit ==
    /\ overflow_checks \in BOOLEAN
    /\ header \in Headers
    /\ data = None
    /\ bytes = <<>>
    /\ flipped = {}
    /\ parsed = NotParsed
    /\ op = "init"
    /\ ret = Value(0)
    /\ ServerIdle

\* packet_to_binary(header, data)
Serialize ==
    /\ op = "init"
    /\ \E d \in Payloads(header) :
         /\ data' = d
         /\ bytes' = packet_to_binary(header, d)
    /\ op' = "packet_to_binary"
    /\ UNCHANGED <<overflow_checks, header, flipped, parsed, ret, server_vars>>

\* one bit of a serialized header is inverted in transit
Corrupt ==
    /\ op = "packet_to_binary"
    /\ data = None
    /\ \E bit \in HeaderBits :
         /\ flipped' = {bit}
         /\ bytes' = FlipBit(bytes, bit)
    /\ op' = "corrupt"
    /\ UNCHANGED <<overflow_checks, header, data, parsed, ret, server_vars>>

\* Header::parse(bytes) of what was serialized (and possibly corrupted)
ParseSerialized ==
    /\ op \in {"packet_to_binary", "corrupt"}
    /\ parsed' = parse(bytes)
    /\ op' = "parse"
    /\ UNCHANGED <<overflow_checks, header, data, bytes, flipped, ret, server_vars>>

\* Header::parse(raw) of arbitrary bytes
ParseRaw ==
    /\ op = "init"
    /\ \E raw \in RawInputs(header) :
         /\ bytes' = raw
         /\ parsed' = parse(raw)
    /\ op' = "parse_raw"
    /\ UNCHANGED <<overflow_checks, header, data, flipped, ret, server_vars>>

\* parsed.verify_header_checksum()
VerifyHeaderChecksum ==
    /\ op \in {"parse", "parse_raw"}
    /\ parsed.ok
    /\ ret' = verify_header_checksum(parsed.header)
    /\ op' = "verify_header_checksum"
    /\ UNCHANGED <<overflow_checks, header, data, bytes, flipped, parsed, server_vars>>

\* parsed.verify_checksum(None) or parsed.verify_checksum(Some(&bytes[HEADER_SIZE..]))
VerifyChecksum ==
    /\ op \in {"parse", "parse_raw"}
    /\ parsed.ok
    /\ \E d \in {None} \cup
                 (IF Len(bytes) - HEADER_SIZE <= MaxPayloadLen
                  THEN {Some(Slice(bytes, HEADER_SIZE, Len(bytes)))} ELSE {}) :
         /\ data' = d
         /\ ret' = verify_checksum(parsed.header, d)
    /\ op' = "verify_checksum"
    /\ UNCHANGED <<overflow_checks, header, bytes, flipped, parsed, server_vars>>

\* Header::calculate_header_checksum(seq, ack, ptype)
CalculateHeaderChecksum ==
    /\ op = "init"
    /\ ret' = calculate_header_checksum(header.seq, header.ack, header.ptype)
    /\ op' = "calculate_header_checksum"
    /\ UNCHANGED <<overflow_checks, header, data, bytes, flipped, parsed, server_vars>>

\* Header::calculate_checksum(seq, ack, ptype, header_checksum, data)
CalculateChecksum ==
    /\ op = "init"
    /\ \E d \in {None} \cup SmallPayloads :
         /\ data' = d
         /\ ret' = calculate_checksum(header.seq, header.ack, header.ptype,
                                      header.header_checksum, d)
    /\ op' = "calculate_checksum"
    /\ UNCHANGED <<overflow_checks, header, bytes, flipped, parsed, server_vars>>

CodecNext ==
    \/ Serialize
    \/ Corrupt
    \/ ParseSerialized
    \/ ParseRaw
    \/ VerifyHeaderChecksum
    \/ VerifyChecksum
    \/ CalculateHeaderChecksum
    \/ CalculateChecksum

SpecCodec == CodecInit /\ [][CodecNext]_vars

(***************************************************************************)
(* The echo server: helpers                                                *)
(***************************************************************************)
Panic32 == [panic |-> TRUE, val |-> U32(0, 0)]

\* (an addition that leaves the number as it is)
add_nothing_u32(x, n) == [panic |-> FALSE, val |-> x]

\* `x + n` and `x += n` on a u32 (n < 2^16): wraps or panics like add_u16
add_u32(x, n) ==
    LET lo == x.lo + n
        hi == x.hi + (lo \div U16_MOD)
    IN  IF hi >= U16_MOD
        THEN (IF overflow_checks THEN Panic32
              ELSE Value(U32(hi % U16_MOD, lo % U16_MOD)))
        ELSE Value(U32(hi, lo % U16_MOD))

\* socket.recv_from(&mut buffer): the datagram's bytes overwrite the start of the
\* buffer, the rest of the buffer keeps what it held
ReceivedSize(d) == IF Len(d) < BUFFER_SIZE THEN Len(d) ELSE BUFFER_SIZE
Received(buf, d) ==
    LET n == ReceivedSize(d)
        written == IF n > Len(buf) THEN n ELSE Len(buf)
    IN  [i \in 1..written |-> IF i <= n THEN d[i] ELSE buf[i]]

\* `!h.verify_header_checksum() || !h.verify_checksum(d)`, evaluated left to right
Verify(h, d) ==
    LET vh == verify_header_checksum(h)
        vc == verify_checksum(h, d)
    IN  IF vh.panic THEN "panic"
        ELSE IF ~vh.result THEN "Bad checksum"
        ELSE IF vc.panic THEN "panic"
        ELSE IF ~vc.result THEN "Bad checksum"
        ELSE "ok"

\* the Ack is the one awaited: `packet_header.ack != connection.seq ||
\* packet_header.seq != connection.ack` is false
\* (a guard that compares only the ack field)
AckMatchesOnAckOnly(h, c) == h.ack = c.seq
AckMatches(h, c) == h.ack = c.seq /\ h.seq = c.ack

\* the Psh is the one awaited: `packet_header.ack != connection.seq` is false
PshMatches(h, c) == h.ack = c.seq

\* str::from_utf8(s) is Ok: s is well-formed UTF-8
RECURSIVE from_utf8_is_ok(_)
from_utf8_is_ok(s) ==
    IF Len(s) = 0 THEN TRUE
    ELSE
      LET b == s[1]
          In(i, lo, hi) == i <= Len(s) /\ s[i] >= lo /\ s[i] <= hi
          Cont(i) == In(i, 128, 191)
          Rest(k) == from_utf8_is_ok(SubSeq(s, k + 1, Len(s)))
      IN  IF b < 128 THEN Rest(1)
          ELSE IF b >= 194 /\ b <= 223 THEN Cont(2) /\ Rest(2)
          ELSE IF b = 224 THEN In(2, 160, 191) /\ Cont(3) /\ Rest(3)
          ELSE IF b = 237 THEN In(2, 128, 159) /\ Cont(3) /\ Rest(3)
          ELSE IF b >= 225 /\ b <= 239 THEN Cont(2) /\ Cont(3) /\ Rest(3)
          ELSE IF b = 240 THEN In(2, 144, 191) /\ Cont(3) /\ Cont(4) /\ Rest(4)
          ELSE IF b >= 241 /\ b <= 243 THEN Cont(2) /\ Cont(3) /\ Cont(4) /\ Rest(4)
          ELSE IF b = 244 THEN In(2, 128, 143) /\ Cont(3) /\ Cont(4) /\ Rest(4)
          ELSE FALSE

\* where main() ends for an outcome that is not an acceptance: `?` returns the
\* parse error, a panic unwinds, a failed check prints and returns Ok(())
EndOf(outcome) ==
    CASE outcome = "error" -> "error"
      [] outcome = "panic" -> "panicked"
      [] OTHER -> "done"

Terminal == {"done", "error", "panicked"}

\* lines 20-28: what the first receive makes of the parsed header
SynOutcome(r) ==
    IF ~r.ok THEN "error"
    ELSE IF r.header.ptype # "Syn" THEN "Not a Syn packet"
    ELSE IF Verify(r.header, None) # "ok" THEN Verify(r.header, None)
    ELSE "accepted"

\* lines 67-79: what the second receive makes of the parsed header
AckOutcome(r, c) ==
    IF ~r.ok THEN "error"
    ELSE IF r.header.ptype # "Ack" THEN "Not a Syn packet"
    ELSE IF Verify(r.header, None) # "ok" THEN Verify(r.header, None)
    ELSE IF ~AckMatches(r.header, c) THEN "Packet needs to be resent"
    ELSE "accepted"

\* lines 87-102: what the third receive makes of the parsed header; the payload
\* slice &buffer[HEADER_SIZE..size] panics when size < HEADER_SIZE
PshOutcome(r, c, buf, n) ==
    IF ~r.ok THEN "error"
    ELSE IF n < HEADER_SIZE THEN "panic"
    ELSE IF r.header.ptype # "Psh" THEN "Not a SynAck packet"
    ELSE IF Verify(r.header, Some(BufferSlice(buf, HEADER_SIZE, n))) # "ok"
         THEN Verify(r.header, Some(BufferSlice(buf, HEADER_SIZE, n)))
    ELSE IF ~PshMatches(r.header, c) THEN "Packet needs to be resent"
    ELSE "accepted"

(***************************************************************************)
(* The client: any of these datagrams may arrive at each receive           *)
(***************************************************************************)
ClientSeqVals == {U32(0, 100), U32(65535, 65534), U32(65535, 65535)}
ClientAckVals == {U32(0, 0), U32(0, 11)}
ClientPayloadBytes == {104, 255}
ShortLens == {0, 10, 13}

\* what rng.gen() may return
RngVals == {U32(0, 7), U32(4660, 22136), U32(65535, 65534), U32(65535, 65535)}

ClientPayloads == { Some(dt) : dt \in SeqsUpTo(ClientPayloadBytes, MaxClientPayload) }

\* the packets for (seq, ack, ptype, payload): both checksums right, the header
\* checksum wrong, the full checksum wrong
PacketsOf(seq, ack, ptype, d) ==
    LET hc == WrapHeaderSum(seq, ack, ptype)
        bad == (hc + 1) % U16_MOD
    IN  { packet_to_binary(Header(seq, ack, ptype, hc,
                                  WrapSum(seq, ack, ptype, hc, d)), d),
          packet_to_binary(Header(seq, ack, ptype, bad,
                                  WrapSum(seq, ack, ptype, bad, d)), d),
          packet_to_binary(Header(seq, ack, ptype, hc,
                                  (WrapSum(seq, ack, ptype, hc, d) + 1) % U16_MOD), d) }

\* the client knows what the server sent: it may use the numbers the server expects
ClientPackets ==
    LET seqs == ClientSeqVals \cup (IF connection.created THEN {connection.ack} ELSE {})
        acks == ClientAckVals \cup (IF connection.created
                                    THEN {connection.seq, connection.previous_seq} ELSE {})
    IN  UNION { UNION { PacketsOf(f[1], f[2], f[3], d) :
                        d \in (IF f[3] = "Psh" THEN ClientPayloads ELSE {None}) } :
                f \in seqs \X acks \X PType }

\* whole packets, packets cut short, packets with an unassigned ptype byte
ClientDatagrams ==
    ClientPackets
      \cup { SubSeq(p, 1, n) : <<p, n>> \in ClientPackets \X ShortLens }
      \cup { Patch(p, 0, 9) : p \in ClientPackets }

(***************************************************************************)
(* The echo server: main()                                                 *)
(*                                                                         *)
(* One action per stretch of main() between two socket operations.  The    *)
(* socket itself is taken to work: bind, recv_from and send_to return no   *)
(* I/O error.  pc = "done" is `return Ok(())`, pc = "error" is the parse   *)
(* error returned by `?`, pc = "panicked" is a panic.                      *)
(***************************************************************************)
\* (a driver that stays at the receive step after a failed check)
RejectAndReceiveAgain(outcome) ==
    /\ pc' = pc
    /\ UNCHANGED <<size, connection, sent>>

\* a receive step that does not accept: nothing is sent, the connection is as
\* it was, main() is over
Reject(outcome) ==
    /\ pc' = EndOf(outcome)
    /\ UNCHANGED <<size, connection, sent>>

\* lines 18-37: receive the Syn, create the connection
RecvSyn ==
    /\ pc = "recv_syn"
    /\ \E d \in ClientDatagrams :
         LET buf == Received(buffer, d)
             r == parse(BufferSlice(buf, 0, HEADER_SIZE))
             outcome == SynOutcome(r)
             ack == add_u32(r.header.seq, 1)
         IN  /\ buffer' = buf
             /\ trace' = Append(trace, [dgram |-> d, parsed |-> r, outcome |-> outcome])
             /\ IF outcome # "accepted" THEN Reject(outcome)
                ELSE IF ack.panic
                THEN /\ pc' = "panicked"
                     /\ UNCHANGED <<size, connection, sent>>
                ELSE /\ \E seq \in RngVals :
                          connection' = Connection(seq, ack.val, seq, FALSE, LAST_RESPONSE)
                     /\ pc' = "send_synack"
                     /\ UNCHANGED <<size, sent>>
    /\ UNCHANGED <<overflow_checks, codec_vars>>

\* lines 39-63: build and send the SynAck, then connection.seq += 1
SendSynAck ==
    /\ pc = "send_synack"
    /\ LET hc == calculate_header_checksum(connection.seq, connection.ack, "SynAck")
           cs == calculate_checksum(connection.seq, connection.ack, "SynAck", hc.val, None)
           next == add_u32(connection.seq, 1)
       IN  IF hc.panic \/ cs.panic
           THEN /\ pc' = "panicked"
                /\ UNCHANGED <<connection, sent>>
           ELSE /\ sent' = Append(sent,
                          packet_to_binary(Header(connection.seq, connection.ack, "SynAck",
                                                  hc.val, cs.val), None))
                /\ IF next.panic
                   THEN /\ pc' = "panicked"
                        /\ UNCHANGED connection
                   ELSE /\ connection' = [connection EXCEPT !.seq = next.val]
                        /\ pc' = "recv_ack"
    /\ UNCHANGED <<buffer, size, trace, overflow_checks, codec_vars>>

\* (a driver that gives up waiting for the Ack and sends the SynAck again)
RetransmitSynAck ==
    /\ pc = "recv_ack"
    /\ Len(sent) < 2
    /\ sent' = Append(sent, sent[1])
    /\ UNCHANGED <<pc, buffer, size, connection, trace, overflow_checks, codec_vars>>

\* lines 65-83: receive the Ack, open the connection
RecvAck ==
    /\ pc = "recv_ack"
    /\ \E d \in ClientDatagrams :
         LET buf == Received(buffer, d)
             r == parse(BufferSlice(buf, 0, HEADER_SIZE))
             outcome == AckOutcome(r, connection)
         IN  /\ buffer' = buf
             /\ trace' = Append(trace, [dgram |-> d, parsed |-> r, outcome |-> outcome])
             /\ IF outcome # "accepted" THEN Reject(outcome)
                ELSE /\ connection' = [connection EXCEPT !.is_open = TRUE]
                     /\ pc' = "recv_psh"
                     /\ UNCHANGED <<size, sent>>
    /\ UNCHANGED <<overflow_checks, codec_vars>>

\* lines 85-108: receive the Psh, connection.ack += payload length, print the payload
RecvPsh ==
    /\ pc = "recv_psh"
    /\ \E d \in ClientDatagrams :
         LET buf == Received(buffer, d)
             n == ReceivedSize(d)
             r == parse(BufferSlice(buf, 0, HEADER_SIZE))
             outcome == PshOutcome(r, connection, buf, n)
             packet_payload == BufferSlice(buf, HEADER_SIZE, n)
             ack == add_u32(connection.ack, Len(packet_payload))
         IN  /\ buffer' = buf
             /\ trace' = Append(trace, [dgram |-> d, parsed |-> r, outcome |-> outcome])
             /\ IF outcome # "accepted" THEN Reject(outcome)
                ELSE IF ack.panic
                THEN /\ pc' = "panicked"
                     /\ UNCHANGED <<size, connection, sent>>
                ELSE /\ connection' = [connection EXCEPT !.ack = ack.val]
                     /\ size' = n
                     /\ pc' = IF from_utf8_is_ok(packet_payload)
                              THEN "send_psh" ELSE "panicked"
                     /\ UNCHANGED sent
    /\ UNCHANGED <<overflow_checks, codec_vars>>

\* lines 110-137: echo the payload in a Psh, then connection.seq += payload length
SendPsh ==
    /\ pc = "send_psh"
    /\ LET d == Some(BufferSlice(buffer, HEADER_SIZE, size))
           hc == calculate_header_checksum(connection.seq, connection.ack, "Psh")
           cs == calculate_checksum(connection.seq, connection.ack, "Psh", hc.val, d)
           next == add_u32(connection.seq, Len(d.dt))
       IN  IF hc.panic \/ cs.panic
           THEN /\ pc' = "panicked"
                /\ UNCHANGED <<connection, sent>>
           ELSE /\ sent' = Append(sent,
                          packet_to_binary(Header(connection.seq, connection.ack, "Psh",
                                                  hc.val, cs.val), d))
                /\ IF next.panic
                   THEN /\ pc' = "panicked"
                        /\ UNCHANGED connection
                   ELSE /\ connection' = [connection EXCEPT !.seq = next.val]
                        /\ pc' = "done"
    /\ UNCHANGED <<buffer, size, trace, overflow_checks, codec_vars>>

ServerNext ==
    \/ RecvSyn
    \/ SendSynAck
    \/ RecvAck
    \/ RecvPsh
    \/ SendPsh

ServerSpecInit ==
    /\ overflow_checks \in BOOLEAN
    /\ CodecIdle
    /\ ServerInit

SpecServer == ServerSpecInit /\ [][ServerNext]_vars

(***************************************************************************)
(* Claims about the codec (checked under SpecCodec)                        *)
(***************************************************************************)
PayloadBytesOf(d) == IF d.is_some THEN d.dt ELSE <<>>

\* C1: round trip.  When a header and a payload with 14 + length <= 65507 are
\* serialized and the output is parsed, parse succeeds, returns a header equal
\* to the original in all five fields, and the output from offset 14 on is the
\* original payload.
C1_RoundTrip ==
    (op = "parse" /\ flipped = {}
        /\ HEADER_SIZE + Len(PayloadBytesOf(data)) <= MAX_PACKET_SIZE)
    => /\ parsed.ok
       /\ parsed.header.seq = header.seq
       /\ parsed.header.ack = header.ack
       /\ parsed.header.ptype = header.ptype
       /\ parsed.header.header_checksum = header.header_checksum
       /\ parsed.header.checksum = header.checksum
       /\ Slice(bytes, HEADER_SIZE, Len(bytes)) = PayloadBytesOf(data)

\* a packet of exactly MAX_PACKET_SIZE bytes, with a payload, has made the round trip
C1_Witness ==
    /\ op = "parse" /\ flipped = {}
    /\ data.is_some
    /\ HEADER_SIZE + Len(data.dt) = MAX_PACKET_SIZE
    /\ parsed.ok
    /\ header.seq = U32(258, 772)

\* C2 (as claimed): for an input of 14..65507 bytes whose byte 9 is a value v
\* outside 1..5, parse returns UnknownPType carrying v, whatever byte 8 is.
C2_UnknownPTypeCarriesByte9 ==
    (op \in {"parse", "parse_raw"}
        /\ Len(bytes) >= HEADER_SIZE /\ Len(bytes) <= MAX_PACKET_SIZE
        /\ bytes[9 + 1] \notin 1..5)
    => parsed = Err(UknownPType_new(bytes[9 + 1]))

\* C3: length guards.  parse returns TooSmallPacket for every input shorter than
\* 14 bytes and TooBigPacket(len) for every input longer than 65507 bytes,
\* whatever the bytes are; for 14..65507 bytes it returns neither.
C3_LengthGuards ==
    (op \in {"parse", "parse_raw"})
    => /\ Len(bytes) < 14 => parsed = Err(TooSmallPacket)
       /\ Len(bytes) > 65507 => parsed = Err(TooBigPacket_new(Len(bytes)))
       /\ (Len(bytes) >= 14 /\ Len(bytes) <= 65507)
            => (parsed.ok \/ parsed.err.kind \notin {"TooSmallPacket", "TooBigPacket"})

\* a 65508-byte input whose ptype byte is invalid was rejected as too big
C3_Witness ==
    /\ op = "parse_raw"
    /\ Len(bytes) = 65508
    /\ bytes[9 + 1] = 9
    /\ parsed = Err(TooBigPacket_new(65508))

\* the header was serialized without payload with a matching header checksum,
\* and one bit of bytes 0..9 was inverted
C4_Flipped ==
    /\ flipped # {}
    /\ calculate_header_checksum(header.seq, header.ack, header.ptype)
         = Value(header.header_checksum)

ByteOfFlip == (CHOOSE b \in flipped : TRUE) \div 8

\* C4 (as claimed): after any single-bit flip in bytes 0..9 the modified bytes
\* carry a header for which verify_header_checksum returns false.
C4_EveryFlipDetected ==
    /\ (op = "parse" /\ C4_Flipped) => parsed.ok
    /\ (op = "verify_header_checksum" /\ C4_Flipped)
         => ret = [panic |-> FALSE, result |-> FALSE]

\* C4 (amended): a flip in seq or ack, or one in the ptype byte that leaves it in
\* 1..5, never lets verify_header_checksum return true (it returns false, or the
\* recomputation aborts on overflow); a flip that takes the ptype byte out of
\* 1..5 makes parse fail with UknownPType; a flip in the reserved byte goes
\* unnoticed: parse returns the original header and verification returns true.
C4_FlipSensitivity ==
    /\ (op = "parse" /\ C4_Flipped)
         => /\ parsed.ok <=> bytes[9 + 1] \in 1..5
            /\ ~parsed.ok => parsed.err.kind = "UknownPType"
            /\ ByteOfFlip = 8 => parsed = Ok(header)
    /\ (op = "verify_header_checksum" /\ C4_Flipped)
         => IF ByteOfFlip = 8
            THEN ret = [panic |-> FALSE, result |-> TRUE]
            ELSE ret.panic \/ ~ret.result

\* a bit of the low half of ack was inverted and verification returned false
C4_Witness ==
    /\ op = "verify_header_checksum" /\ C4_Flipped
    /\ ByteOfFlip = 7
    /\ ret = [panic |-> FALSE, result |-> FALSE]

\* C5 (as claimed): calculate_checksum returns, for every input, the 16-bit
\* wrapping sum of header_checksum, the halves of seq and ack, ptype and the
\* payload's byte pairs (a last odd byte counting as byte << 8).
C5_FullChecksumIsWrappingSum ==
    (op = "calculate_checksum")
    => ret = Value(WrapSum(header.seq, header.ack, header.ptype,
                           header.header_checksum, data))

\* C6 (as claimed): calculate_header_checksum returns, for every input, the sum
\* of the halves of seq and ack and of ptype modulo 2^16, and never aborts.
C6_HeaderChecksumIsWrappingSum ==
    (op = "calculate_header_checksum")
    => ret = Value(WrapHeaderSum(header.seq, header.ack, header.ptype))

\* C10: wire layout.  The output of packet_to_binary is 14 bytes plus the payload
\* length; seq is big-endian at offsets 0..3, ack at 4..7, offset 8 is 0, offset
\* 9 is the ptype discriminant, header_checksum is big-endian at 10..11, checksum
\* at 12..13, and the payload follows unchanged from offset 14.
C10_WireLayout ==
    (op = "packet_to_binary")
    => /\ Len(bytes) = 14 + (IF data.is_some THEN Len(data.dt) ELSE 0)
       /\ \A i \in 1..14 : bytes[i] \in 0..255
       /\ bytes[1] * 256 + bytes[2] = header.seq.hi
       /\ bytes[3] * 256 + bytes[4] = header.seq.lo
       /\ bytes[5] * 256 + bytes[6] = header.ack.hi
       /\ bytes[7] * 256 + bytes[8] = header.ack.lo
       /\ bytes[9] = 0
       /\ bytes[10] \in 1..5
       /\ bytes[10] = Discriminant(header.ptype)
       /\ bytes[11] * 256 + bytes[12] = header.header_checksum
       /\ bytes[13] * 256 + bytes[14] = header.checksum
       /\ data.is_some => \A i \in 1..Len(data.dt) : bytes[14 + i] = data.dt[i]

\* a header with distinct bytes in every field was serialized with a 3-byte payload
C10_Witness ==
    /\ op = "packet_to_binary"
    /\ header.seq = U32(258, 772)
    /\ header.ack = U32(43981, 4660)
    /\ header.header_checksum = 4660
    /\ header.checksum = 43981
    /\ data = Some(<<1, 2, 255>>)
    /\ Len(bytes) = 17

(***************************************************************************)
(* Claims about the echo server (checked under SpecServer)                 *)
(***************************************************************************)
\* x + 1 modulo 2^32
Succ32(x) == IF x.lo = U16_MOD - 1 THEN U32((x.hi + 1) % U16_MOD, 0) ELSE U32(x.hi, x.lo + 1)

\* both checksum fields of h are the specified 16-bit wrapping sums (over payload d)
WrapValid(h, d) ==
    /\ h.header_checksum = WrapHeaderSum(h.seq, h.ack, h.ptype)
    /\ h.checksum = WrapSum(h.seq, h.ack, h.ptype, h.header_checksum, d)

\* the header a whole datagram carries
HeaderOf(d) == parse(SubSeq(d, 1, HEADER_SIZE))

\* datagram d is a Syn with valid header and full checksums
IsValidSyn(d) ==
    /\ Len(d) >= HEADER_SIZE
    /\ HeaderOf(d).ok
    /\ HeaderOf(d).header.ptype = "Syn"
    /\ WrapValid(HeaderOf(d).header, None)

\* datagram d is an Ack with seq = c + 1, ack = S + 1 and valid checksums
IsMatchingAck(d, c, S) ==
    /\ Len(d) >= HEADER_SIZE
    /\ HeaderOf(d).ok
    /\ HeaderOf(d).header.ptype = "Ack"
    /\ HeaderOf(d).header.seq = Succ32(c)
    /\ HeaderOf(d).header.ack = Succ32(S)
    /\ WrapValid(HeaderOf(d).header, None)

\* the sent datagram p is a SynAck with seq = S, ack = a and valid checksums
IsSynAck(p, S, a) ==
    /\ Len(p) = HEADER_SIZE
    /\ HeaderOf(p).ok
    /\ HeaderOf(p).header.ptype = "SynAck"
    /\ HeaderOf(p).header.seq = S
    /\ HeaderOf(p).header.ack = a
    /\ WrapValid(HeaderOf(p).header, None)

SentOfType(t) == { i \in 1..Len(sent) : HeaderOf(sent[i]).ok /\ HeaderOf(sent[i]).header.ptype = t }

\* C7 (as claimed): a first datagram that is a valid Syn(seq = c) makes the server
\* send exactly one SynAck(seq = S, ack = c + 1) with valid checksums; a next
\* datagram that is a valid Ack(seq = c + 1, ack = S + 1) makes it set is_open;
\* after that a Psh is accepted only if its ack field is S + 1.
C7_Handshake ==
    /\ (Len(trace) >= 1 /\ IsValidSyn(trace[1].dgram) /\ pc # "send_synack")
         => /\ Cardinality(SentOfType("SynAck")) = 1
            /\ IsSynAck(sent[1], connection.previous_seq,
                        Succ32(HeaderOf(trace[1].dgram).header.seq))
    /\ (Len(trace) >= 2 /\ IsValidSyn(trace[1].dgram)
          /\ IsMatchingAck(trace[2].dgram, HeaderOf(trace[1].dgram).header.seq,
                           connection.previous_seq))
         => connection.is_open
    /\ (Len(trace) >= 3 /\ trace[3].outcome = "accepted")
         => /\ connection.is_open
            /\ trace[3].parsed.header.ptype = "Psh"
            /\ trace[3].parsed.header.ack = Succ32(connection.previous_seq)

\* C8: is_open is true only if the server accepted a Syn with valid checksums,
\* sent the SynAck with seq = S, and accepted an Ack of ptype Ack with valid
\* checksums, ack = S + 1 and seq = the Syn's seq + 1; once the Ack's ack field
\* differs from S + 1, is_open is false from then on.
C8_OpenOnlyAfterHandshake ==
    /\ connection.is_open
         => /\ Len(trace) >= 2
            /\ trace[1].outcome = "accepted"
            /\ trace[1].parsed.header.ptype = "Syn"
            /\ WrapValid(trace[1].parsed.header, None)
            /\ Len(sent) >= 1
            /\ IsSynAck(sent[1], connection.previous_seq, Succ32(trace[1].parsed.header.seq))
            /\ trace[2].outcome = "accepted"
            /\ trace[2].parsed.header.ptype = "Ack"
            /\ WrapValid(trace[2].parsed.header, None)
            /\ trace[2].parsed.header.ack = Succ32(connection.previous_seq)
            /\ trace[2].parsed.header.seq = Succ32(trace[1].parsed.header.seq)
    /\ (Len(trace) >= 2 /\ trace[2].parsed.ok
          /\ trace[2].parsed.header.ack # Succ32(connection.previous_seq))
         => ~connection.is_open

\* the connection was opened by an Ack answering Syn(seq = 100), and the run went on
C8_Witness ==
    /\ connection.is_open
    /\ Len(trace) = 3
    /\ trace[1].parsed.header.seq = U32(0, 100)
    /\ trace[2].parsed.header.seq = U32(0, 101)

\* at most two packets are sent: a SynAck, then a Psh
C9_SentOrder ==
    /\ Len(sent) <= 2
    /\ Len(sent) >= 1 => SentOfType("SynAck") = {1}
    /\ Len(sent) = 2 => SentOfType("Psh") = {2}

\* a receive step that ends in anything but an acceptance sends nothing, leaves
\* the Connection alone and ends main()
C9_FailureStep ==
    (Len(trace') = Len(trace) + 1 /\ trace'[Len(trace')].outcome # "accepted")
    => /\ sent' = sent
       /\ connection' = connection
       /\ pc' \in Terminal

\* C9: every verification failure (wrong ptype, header checksum, full checksum,
\* seq/ack comparison) at any of the three receive steps is silent and terminal:
\* no packet is sent, no Connection field changes, nothing is received
\* afterwards; so a run sends at most a SynAck and then a Psh.
C9_FailuresAreSilentAndTerminal ==
    /\ []C9_SentOrder
    /\ [][C9_FailureStep /\ pc \notin Terminal]_vars

\* the Ack was rejected for its numbers after the SynAck went out, and main() is over
C9_Witness ==
    /\ pc = "done"
    /\ Len(trace) = 2
    /\ trace[2].outcome = "Packet needs to be resent"
    /\ Len(sent) = 1
    /\ ~connection.is_open

\* x + n modulo 2^32, for 0 <= n < 2^16
Plus32(x, n) ==
    U32((x.hi + ((x.lo + n) \div U16_MOD)) % U16_MOD, (x.lo + n) % U16_MOD)

\* the payload a whole datagram carries: its bytes from offset 14 on
PayloadOf(d) == Slice(d, HEADER_SIZE, Len(d))

\* the connection is open and the third datagram is a whole Psh with valid
\* header and full checksums over its payload and ack = the local seq (S + 1)
C11_ValidPshReceived ==
    /\ Len(trace) = 3
    /\ trace[2].outcome = "accepted"
    /\ Len(trace[3].dgram) >= HEADER_SIZE
    /\ HeaderOf(trace[3].dgram).ok
    /\ HeaderOf(trace[3].dgram).header.ptype = "Psh"
    /\ WrapValid(HeaderOf(trace[3].dgram).header, Some(PayloadOf(trace[3].dgram)))
    /\ HeaderOf(trace[3].dgram).header.ack = Succ32(connection.previous_seq)

\* the sent datagram p is a Psh with seq = s, ack = a, payload P and valid checksums
IsPshEcho(p, s, a, P) ==
    /\ Len(p) = HEADER_SIZE + Len(P)
    /\ HeaderOf(p).ok
    /\ HeaderOf(p).header.ptype = "Psh"
    /\ HeaderOf(p).header.seq = s
    /\ HeaderOf(p).header.ack = a
    /\ PayloadOf(p) = P
    /\ WrapValid(HeaderOf(p).header, Some(P))

\* C11 (as claimed): when the connection is open and the received datagram is a
\* Psh with valid header checksum, valid full checksum over its payload P and
\* ack = the local seq, the server advances the local ack by length(P), then
\* sends exactly one Psh with seq = S + 1, ack = the advanced ack, payload P and
\* valid checksums, and only after sending advances the local seq by length(P);
\* the connection stays open.
C11_PshEcho ==
    C11_ValidPshReceived
    => LET P == PayloadOf(trace[3].dgram)
           S1 == Succ32(connection.previous_seq)
       IN  /\ connection.is_open
           /\ connection.ack = Plus32(Succ32(trace[1].parsed.header.seq), Len(P))
           /\ pc \in {"send_psh", "done"}
           /\ pc = "send_psh" => Len(sent) = 1 /\ connection.seq = S1
           /\ pc = "done" => /\ Len(sent) = 2
                             /\ SentOfType("Psh") = {2}
                             /\ IsPshEcho(sent[2], S1, connection.ack, P)
                             /\ connection.seq = Plus32(S1, Len(P))

\* the echo step for a payload that is valid UTF-8, in a build that wraps
C11_PshEchoOfUtf8 ==
    (~overflow_checks /\ C11_ValidPshReceived
        /\ from_utf8_is_ok(PayloadOf(trace[3].dgram)))
    => C11_PshEcho

\* a valid Psh was accepted in a build that wraps, and main() panicked at the unwrap
C11_UnwrapPanic ==
    /\ ~overflow_checks
    /\ C11_ValidPshReceived
    /\ trace[3].outcome = "accepted"
    /\ pc = "panicked"
    /\ Len(sent) = 1

\* C12 (as claimed): while the server is awaiting the Ack, connection.seq still
\* equals the value S sent in the SynAck; connection.seq becomes S + 1 only
\* when a matching Ack is accepted together with is_open = true; a run that ends
\* with a rejected or mismatched Ack ends with connection.seq = S and is_open = false.
C12_SeqIncrementedByAck ==
    /\ pc = "recv_ack" => connection.seq = connection.previous_seq
    /\ (Len(trace) >= 2 /\ trace[2].outcome = "accepted")
         => connection.is_open
    /\ (Len(trace) = 2 /\ trace[2].outcome # "accepted")
         => connection.seq = connection.previous_seq /\ ~connection.is_open

\* from the SynAck's sending to the Psh's acceptance, connection.seq is S + 1
C12_SeqWhileAwaiting ==
    /\ pc = "recv_ack"
         => /\ IsSynAck(sent[1], connection.previous_seq, connection.ack)
            /\ connection.seq = Succ32(connection.previous_seq)
            /\ ~connection.is_open
    /\ (Len(trace) >= 2 /\ trace[2].outcome = "accepted")
         => /\ trace[2].parsed.header.ack = Succ32(connection.previous_seq)
            /\ connection.is_open
    /\ (Len(trace) = 2 /\ trace[2].outcome # "accepted")
         => /\ connection.seq = Succ32(connection.previous_seq)
            /\ ~connection.is_open

\* the Ack step compares the Ack's ack field with connection.seq as it is, and
\* changes nothing of the Connection but is_open
C12_AckStep ==
    pc = "recv_ack"
    => /\ connection'.seq = connection.seq
       /\ connection'.ack = connection.ack
       /\ connection'.previous_seq = connection.previous_seq
       /\ connection'.is_open
            <=> /\ trace'[2].outcome = "accepted"
                /\ trace'[2].parsed.header.ack = connection.seq
                /\ trace'[2].parsed.header.seq = connection.ack

\* C12 (amended): local seq is incremented right after the SynAck is sent, not
\* by the Ack transition: while the server awaits the Ack, connection.seq is
\* already S + 1 for the S sent in the SynAck, the guard compares the Ack's ack
\* field with connection.seq itself, an accepted Ack only sets is_open = true,
\* and a run that ends with a rejected or mismatched Ack ends with
\* connection.seq = S + 1 and is_open = false.
C12_SeqIncrementedAfterSynAck ==
    /\ []C12_SeqWhileAwaiting
    /\ [][C12_AckStep]_vars

\* an Ack whose ack field is S itself was rejected; connection.seq is S + 1
C12_Witness ==
    /\ pc = "done"
    /\ Len(trace) = 2
    /\ trace[2].outcome = "Packet needs to be resent"
    /\ trace[2].parsed.header.ack = connection.previous_seq
    /\ trace[2].parsed.header.seq = connection.ack
    /\ connection.seq = Succ32(connection.previous_seq)
    /\ ~connection.is_open

(***************************************************************************)
(* Further claims about the codec (checked under SpecCodec)                *)
(***************************************************************************)
\* the 16-bit big-endian number found at offsets i, i + 1 of the parsed input
FieldAt(i) == bytes[i + 1] * 256 + bytes[i + 2]

\* the input that was parsed has 14..65507 bytes and an assigned ptype byte
C13_ParsableInput ==
    /\ op \in {"parse", "parse_raw", "verify_header_checksum", "verify_checksum"}
    /\ Len(bytes) >= HEADER_SIZE
    /\ Len(bytes) <= MAX_PACKET_SIZE
    /\ bytes[9 + 1] \in 1..5

\* C13: parsing is independent of checksum validity.  For every input of 14 to
\* 65507 bytes whose byte 9 is in 1..5, parse succeeds and returns the
\* header_checksum and checksum fields exactly as found at offsets 10..11 and
\* 12..13, whether or not they equal the recomputed checksums; a mismatch shows
\* only as verify_header_checksum / verify_checksum returning false.
C13_ParseIgnoresChecksums ==
    /\ C13_ParsableInput
         => /\ parsed.ok
            /\ parsed.header.header_checksum = FieldAt(10)
            /\ parsed.header.checksum = FieldAt(12)
    /\ (op = "verify_header_checksum" /\ ~ret.panic)
         => (ret.result = FALSE
               <=> parsed.header.header_checksum
                     # WrapHeaderSum(parsed.header.seq, parsed.header.ack,
                                     parsed.header.ptype))
    /\ (op = "verify_checksum" /\ ~ret.panic)
         => (ret.result = FALSE
               <=> parsed.header.checksum
                     # WrapSum(parsed.header.seq, parsed.header.ack, parsed.header.ptype,
                               parsed.header.header_checksum, data))

\* an input whose two checksum fields are both wrong was parsed, fields as
\* found, and verify_header_checksum then returned false
C13_Witness ==
    /\ op = "verify_header_checksum"
    /\ C13_ParsableInput
    /\ parsed.ok
    /\ parsed.header.header_checksum = 4660
    /\ parsed.header.checksum = 43981
    /\ FieldAt(10) = 4660
    /\ WrapHeaderSum(parsed.header.seq, parsed.header.ack, parsed.header.ptype) # 4660
    /\ ~ret.panic
    /\ ret.result = FALSE

(***************************************************************************)
(* Further claims about the echo server (checked under SpecServer)         *)
(***************************************************************************)
\* the three `socket.recv_from(&mut buffer).await` of main()
ReceiveSteps == {"recv_syn", "recv_ack", "recv_psh"}

\* what the driver holds while it waits at each receive step
C14_Waiting ==
    /\ pc = "recv_syn" => sent = <<>> /\ ~connection.created /\ trace = <<>>
    /\ pc = "recv_ack" => Len(sent) = 1 /\ ~connection.is_open /\ Len(trace) = 1
    /\ pc = "recv_psh" => Len(sent) = 1 /\ connection.is_open /\ Len(trace) = 2

\* a step taken at a receive step is the receipt of one datagram; without one,
\* nothing is sent, no Connection field changes and main() does not end
C14_OnlyReceiptAdvances ==
    pc \in ReceiveSteps
    => /\ Len(trace') = Len(trace) + 1
       /\ SubSeq(trace', 1, Len(trace)) = trace

\* C14: no timeout.  The driver advances only on receipt of a datagram: as long
\* as no datagram arrives at one of its three receive steps it stays at that
\* step, sends no further packet, changes no Connection field and does not
\* terminate; a server whose Ack is lost never retransmits the SynAck and never
\* opens the connection.
C14_NoTimeout ==
    /\ []C14_Waiting
    /\ [][C14_OnlyReceiptAdvances]_vars

\* the SynAck went out and the server waits for an Ack that has not come
C14_Witness ==
    /\ pc = "recv_ack"
    /\ Len(trace) = 1
    /\ Len(sent) = 1
    /\ IsSynAck(sent[1], connection.previous_seq, connection.ack)
    /\ ~connection.is_open

\* C15 (as claimed): a datagram shorter than 14 bytes is never accepted by the
\* driver: at each receive step (Syn, Ack, Psh) it is rejected, so it never
\* creates a Connection, never causes a SynAck or Psh to be sent and never sets
\* is_open; its missing header bytes are never filled in from the receive buffer.
C15_ShortDatagramNeverAccepted ==
    \A i \in 1..Len(trace) :
        Len(trace[i].dgram) < HEADER_SIZE => trace[i].outcome # "accepted"

\* a datagram shorter than 14 bytes was accepted as the Ack and opened the connection
C15_ShortAckAccepted ==
    /\ Len(trace) = 2
    /\ Len(trace[2].dgram) < HEADER_SIZE
    /\ trace[2].outcome = "accepted"
    /\ connection.is_open

\* the payload the driver takes from the third datagram, when it is a whole one
C16_Payload == PayloadOf(trace[3].dgram)

\* C16 (as claimed): sequence arithmetic of the driver is modulo 2^32 and never
\* aborts the exchange.  For every accepted Syn, including one with
\* seq = 2^32 - 1, the connection's ack is (peer.seq + 1) mod 2^32 and the
\* SynAck is still sent; likewise connection.seq + 1 after the SynAck,
\* connection.ack + payload length and connection.seq + payload length after a
\* Psh wrap modulo 2^32 for every S and payload length.
C16_WrappingSequenceArithmetic ==
    /\ (Len(trace) >= 1 /\ trace[1].outcome = "accepted")
         => /\ connection.created
            /\ Len(trace) < 3
                 => connection.ack = Succ32(trace[1].parsed.header.seq)
            /\ pc # "send_synack"
                 => /\ Len(sent) >= 1
                    /\ IsSynAck(sent[1], connection.previous_seq,
                                Succ32(trace[1].parsed.header.seq))
                    /\ pc # "done" \/ Len(trace) < 3
                         => connection.seq = Succ32(connection.previous_seq)
            /\ Len(trace) = 1 => pc \in {"send_synack", "recv_ack"}
    /\ (Len(trace) = 3 /\ trace[3].outcome = "accepted")
         => /\ connection.ack
                 = Plus32(Succ32(trace[1].parsed.header.seq), Len(C16_Payload))
            /\ from_utf8_is_ok(C16_Payload) => pc \in {"send_psh", "done"}
            /\ pc = "done"
                 => connection.seq
                      = Plus32(Succ32(connection.previous_seq), Len(C16_Payload))

\* in a build that wraps, the three additions wrapped and the exchange went on:
\* Syn with seq = 2^32 - 2, S = 2^32 - 2, a Psh with a payload of two bytes
C16_Wrapped ==
    /\ ~overflow_checks
    /\ pc = "done"
    /\ Len(trace) = 3
    /\ trace[3].outcome = "accepted"
    /\ trace[1].parsed.header.seq = U32(65535, 65534)
    /\ connection.previous_seq = U32(65535, 65534)
    /\ Len(C16_Payload) = 2
    /\ connection.ack = U32(0, 1)
    /\ connection.seq = U32(0, 1)

\* C16 holds in a build without overflow checks
C16_HoldsWhenWrapping == overflow_checks \/ C16_WrappingSequenceArithmetic

\* datagram d is a whole Psh with ack = S + 1, valid header and full checksums
\* over its payload, and a payload of at most BUFFER_SIZE - HEADER_SIZE bytes
IsValidPsh(d, S) ==
    /\ Len(d) >= HEADER_SIZE
    /\ Len(d) <= BUFFER_SIZE
    /\ HeaderOf(d).ok
    /\ HeaderOf(d).header.ptype = "Psh"
    /\ HeaderOf(d).header.ack = Succ32(S)
    /\ WrapValid(HeaderOf(d).header, Some(PayloadOf(d)))

\* what the server has received so far is what the client of the claim sends,
\* delivered unmodified, in order and once: Syn(seq = c), then
\* Ack(seq = c + 1, ack = S + 1), then Psh(ack = S + 1)
C17_ReliableDelivery ==
    /\ Len(trace) >= 1
    /\ IsValidSyn(trace[1].dgram)
    /\ Len(trace) >= 2
         => IsMatchingAck(trace[2].dgram, HeaderOf(trace[1].dgram).header.seq,
                          connection.previous_seq)
    /\ Len(trace) >= 3 => IsValidPsh(trace[3].dgram, connection.previous_seq)

\* C17 (as claimed): if a client sends a valid Syn(seq = c), then
\* Ack(seq = c + 1, ack = S + 1), then a valid Psh(ack = S + 1) with a payload
\* of at most 1010 bytes, all delivered unmodified, in order and once, the
\* server terminates having set is_open = true and having sent exactly one
\* SynAck and exactly one echo Psh, after exactly three receives.  (The part a
\* finite run refutes: with such a client main() never ends in another way.)
C17_HandshakeCompletes ==
    (C17_ReliableDelivery /\ pc \in Terminal)
    => /\ pc = "done"
       /\ Len(trace) = 3
       /\ connection.is_open
       /\ Len(sent) = 2
       /\ SentOfType("SynAck") = {1}
       /\ SentOfType("Psh") = {2}
       /\ IsPshEcho(sent[2], Succ32(connection.previous_seq), connection.ack,
                    PayloadOf(trace[3].dgram))

\* C17 for a build that wraps and a payload that is valid UTF-8
C17_CompletesForUtf8 ==
    (~overflow_checks
       /\ (Len(trace) >= 3 => from_utf8_is_ok(PayloadOf(trace[3].dgram))))
    => C17_HandshakeCompletes

\* the exchange with the client of the claim ran to its end in a build that wraps
C17_Completed ==
    /\ ~overflow_checks
    /\ C17_ReliableDelivery
    /\ pc = "done"
    /\ Len(trace) = 3
    /\ Len(sent) = 2

(***************************************************************************)
(* The chained checksum (checked under SpecCodec)                          *)
(***************************************************************************)
\* C18 (as claimed): for every seq, ack and ptype,
\* calculate_checksum(seq, ack, ptype, calculate_header_checksum(seq, ack, ptype), None)
\* equals (2 * calculate_header_checksum(seq, ack, ptype)) mod 2^16; hence a
\* parsed header that passes verify_header_checksum passes verify_checksum(None)
\* if and only if its checksum field equals (2 * header_checksum) mod 2^16.
C18_ChainedChecksumIsDouble ==
    /\ (op = "calculate_checksum" /\ data = None
          /\ calculate_header_checksum(header.seq, header.ack, header.ptype)
               = Value(header.header_checksum))
         => ret = Value((2 * header.header_checksum) % U16_MOD)
    /\ (op = "verify_checksum" /\ data = None
          /\ verify_header_checksum(parsed.header) = [panic |-> FALSE, result |-> TRUE])
         => ret = [panic |-> FALSE,
                   result |-> (parsed.header.checksum
                                 = (2 * parsed.header.header_checksum) % U16_MOD)]

\* C18 holds in a build without overflow checks
C18_HoldsWhenWrapping == overflow_checks \/ C18_ChainedChecksumIsDouble

\* in a build that wraps, a header with a right header checksum of 2^15 or more
\* passed verify_checksum(None) with checksum = (2 * header_checksum) mod 2^16
C18_Doubled ==
    /\ ~overflow_checks
    /\ op = "verify_checksum"
    /\ data = None
    /\ verify_header_checksum(parsed.header) = [panic |-> FALSE, result |-> TRUE]
    /\ parsed.header.header_checksum >= U16_MOD \div 2
    /\ parsed.header.checksum = (2 * parsed.header.header_checksum) % U16_MOD
    /\ ret = [panic |-> FALSE, result |-> TRUE]

====
